---- MODULE Spec2Model ----
(***************************************************************************)
(* A state-machine model of two actions of the update engine's pipeline:   *)
(*                                                                         *)
(*   DownloadAction            (src/download_action.cc)                    *)
(*   FilesystemVerifierAction  (src/filesystem_verifier_action.cc)         *)
(*                                                                         *)
(* Each action object is one record variable whose fields carry the names  *)
(* of the C++ members (writer_, code_, p2p_file_id_, ...), followed by the *)
(* state of the collaborators the action talks to (HTTP fetcher, applier,  *)
(* P2P manager and share file, delegate, action processor, block devices). *)
(* Every handler of the source is one operator over that record, and one   *)
(* action of the next-state relation applies the whole handler.            *)
(***************************************************************************)
EXTENDS Integers, Sequences, FiniteSets, TLC

VARIABLES dl, fv

vars == <<dl, fv>>

----------------------------------------------------------------------------
(* Bounds of the model.                                                    *)

\* Number of received_bytes callbacks the fetcher delivers in one transfer.
MaxChunks == 2
\* Largest length of one received_bytes chunk.
MaxLen == 2
\* Largest offset passed to seek_to_offset, and largest size of a share file
\* left over from an earlier attempt.
MaxOffset == 1
\* Number of times the processor's owner calls terminate_processing.
MaxTerminate == 2

----------------------------------------------------------------------------
(* Error codes (ErrorCode enumeration).                                    *)

kSuccess == "kSuccess"
kError == "kError"
kDownloadTransferError == "kDownloadTransferError"
kFilesystemVerifierError == "kFilesystemVerifierError"
kNewRootfsVerificationError == "kNewRootfsVerificationError"

\* Codes the applier stores through Write's out-parameter when it fails.
WriteErrors == {"kDownloadWriteError", "kDownloadInvalidMetadataSignature"}
\* Codes the applier's VerifyPayload returns besides kSuccess.
VerifyErrors == {"kPayloadHashMismatchError", "kPayloadSizeMismatchError"}

Max(a, b) == IF a > b THEN a ELSE b
Min(a, b) == IF a < b THEN a ELSE b

----------------------------------------------------------------------------
(* DownloadAction.                                                         *)
(*                                                                         *)
(* Fields of dl, the members of the object:                                *)
(*   writer_           "nullptr" | "test_writer" | "delta_performer"       *)
(*   delta_performer_  whether delta_performer_.get() is non-null          *)
(*   code_, delegate_, bytes_received_, p2p_sharing_fd_, p2p_visible_,     *)
(*   p2p_file_id_ ("" or the id), install_plan_                            *)
(*   system_state_     "nullptr" | "sharing" | "not_sharing", the last two *)
(*                     being payload_state->GetUsingP2PForSharing()        *)
(*   has_input, input_object, has_output_pipe, output_object: the pipes    *)
(* the collaborators:                                                      *)
(*   fetcher           "idle" | "transferring" | "terminating" | "done"    *)
(*   terminate_transfers   TerminateTransfer requests received             *)
(*   applier_writes    lengths of the chunks handed to Write, in order     *)
(*   applier_closes, verify_calls, manifest_valid, applier_error           *)
(*   verify_result     what VerifyPayload returned, "none" if not called   *)
(*   p2p_file          "absent" | "hidden" | "visible"; p2p_file_size      *)
(*   p2p_opens, p2p_writes (<<offset, length>>), p2p_unlinks,              *)
(*   make_visible      ids passed to FileMakeVisible                       *)
(*   status            values passed to SetDownloadStatus                  *)
(*   progress          values passed to BytesReceived                      *)
(*   completions       codes passed to processor_->ActionComplete          *)
(*   slot_marked       MarkSlotUnbootable was requested                    *)
(*   p2p_short         a mirrored write found the share file shorter than  *)
(*                     its offset                                          *)
(*   transfer          how the transfer ended: "none" | "complete_true" |  *)
(*                     "complete_false" | "terminated"                     *)
(*   seek_offset       the offset the fetcher passed to SeekToOffset       *)
(*   received          lengths of the chunks the fetcher delivered         *)
(* and the position of the run:                                            *)
(*   pc  "none" | "created" | "performed" | "aborted"; op, the last        *)
(*   handler run; chunks and terminates, the counts the bounds cap.        *)
(***************************************************************************)

FileId == "file_id"

\* DownloadAction::DownloadAction, with SetTestFileWriter, set_delegate and the
\* pipes wired before the action is run.
DownloadAction(has_input, test_writer, delegate, pipe, sys, file, size) ==
    [ writer_ |-> IF test_writer THEN "test_writer" ELSE "nullptr",
      delta_performer_ |-> FALSE,
      code_ |-> kSuccess,
      delegate_ |-> delegate,
      bytes_received_ |-> 0,
      p2p_sharing_fd_ |-> -1,
      p2p_visible_ |-> TRUE,
      p2p_file_id_ |-> "",
      install_plan_ |-> "none",
      system_state_ |-> sys,
      has_input |-> has_input,
      input_object |-> "install_plan",
      has_output_pipe |-> pipe,
      output_object |-> "none",
      fetcher |-> "idle",
      terminate_transfers |-> 0,
      applier_writes |-> <<>>,
      applier_closes |-> 0,
      verify_calls |-> 0,
      verify_result |-> "none",
      manifest_valid |-> FALSE,
      applier_error |-> kSuccess,
      p2p_file |-> file,
      p2p_file_size |-> size,
      p2p_opens |-> 0,
      p2p_writes |-> <<>>,
      p2p_unlinks |-> 0,
      make_visible |-> <<>>,
      status |-> <<>>,
      progress |-> <<>>,
      completions |-> <<>>,
      slot_marked |-> FALSE,
      p2p_short |-> FALSE,
      transfer |-> "none",
      seek_offset |-> 0,
      received |-> <<>>,
      pc |-> "created",
      op |-> "DownloadAction",
      chunks |-> 0,
      terminates |-> 0 ]

\* The record of a DownloadAction that is not part of the run.
NoDownloadAction ==
    [DownloadAction(FALSE, FALSE, FALSE, FALSE, "nullptr", "absent", 0)
        EXCEPT !.pc = "none", !.op = "none"]

\* processor_->ActionComplete(this, code)
ActionComplete(s, code) ==
    [s EXCEPT !.completions = Append(@, code)]

\* DownloadAction::CloseP2PSharingFd. unlink() removes the file that
\* FileGetPath(p2p_file_id_) names; an empty id names no file.
CloseP2PSharingFd(s, delete_p2p_file) ==
    LET closed == IF s.p2p_sharing_fd_ # -1
                    THEN [s EXCEPT !.p2p_sharing_fd_ = -1]
                    ELSE s
        deleted == IF delete_p2p_file
                     THEN [closed EXCEPT
                             !.p2p_unlinks = @ + 1,
                             !.p2p_file = IF s.p2p_file_id_ # "" THEN "absent" ELSE @,
                             !.p2p_file_size = IF s.p2p_file_id_ # "" THEN 0 ELSE @]
                     ELSE closed
    IN  [deleted EXCEPT !.p2p_file_id_ = ""]

\* DownloadAction::SetupP2PSharingFd. outcome is what the P2P manager and the
\* file system answer: "ok", "share_fail", "open_fail" or "fchmod_fail".
\* FileShare creates the file hidden and empty unless it exists already.
SetupP2PSharingFd(s, outcome) ==
    IF outcome = "share_fail"
      THEN [ok |-> FALSE, s |-> CloseP2PSharingFd(s, TRUE)]
      ELSE
        LET shared == [s EXCEPT !.p2p_file = IF @ = "absent" THEN "hidden" ELSE @]
        IN  IF outcome = "open_fail"
              THEN [ok |-> FALSE, s |-> CloseP2PSharingFd(shared, TRUE)]
              ELSE
                LET opened == [shared EXCEPT !.p2p_sharing_fd_ = 3,
                                             !.p2p_opens = @ + 1]
                IN  IF outcome = "fchmod_fail"
                      THEN [ok |-> FALSE, s |-> CloseP2PSharingFd(opened, TRUE)]
                      ELSE [ok |-> TRUE,
                            s |-> [opened EXCEPT
                                     !.p2p_visible_ = (opened.p2p_file = "visible")]]

\* Faulty variant of WriteToP2PFile: a share file shorter than the offset is
\* left in place, open, and mirroring goes on with the next chunk.
WriteToP2PFile_KeepsShortFile(s, length, file_offset, setup, io) ==
    LET su == IF s.p2p_sharing_fd_ = -1
                THEN SetupP2PSharingFd(s, setup)
                ELSE [ok |-> TRUE, s |-> s]
        t == su.s
    IN  IF ~su.ok THEN t
        ELSE IF io = "stat_fail" THEN CloseP2PSharingFd(t, TRUE)
        ELSE IF t.p2p_file_size < file_offset THEN [t EXCEPT !.p2p_short = TRUE]
        ELSE IF io = "lseek_fail" THEN CloseP2PSharingFd(t, TRUE)
        ELSE IF io = "write_fail" THEN CloseP2PSharingFd(t, TRUE)
        ELSE [t EXCEPT !.p2p_file_size = Max(@, file_offset + length),
                       !.p2p_writes = Append(@, <<file_offset, length>>)]

\* DownloadAction::WriteToP2PFile. io is what the file system answers to the
\* stat, the seek and the write: "ok", "stat_fail", "lseek_fail", "write_fail".
WriteToP2PFile(s, length, file_offset, setup, io) ==
    LET su == IF s.p2p_sharing_fd_ = -1
                THEN SetupP2PSharingFd(s, setup)
                ELSE [ok |-> TRUE, s |-> s]
        t == su.s
    IN  IF ~su.ok THEN t
        ELSE IF io = "stat_fail" THEN CloseP2PSharingFd(t, TRUE)
        ELSE IF t.p2p_file_size < file_offset
          THEN CloseP2PSharingFd([t EXCEPT !.p2p_short = TRUE], TRUE)
        ELSE IF io = "lseek_fail" THEN CloseP2PSharingFd(t, TRUE)
        ELSE IF io = "write_fail" THEN CloseP2PSharingFd(t, TRUE)
        ELSE [t EXCEPT !.p2p_file_size = Max(@, file_offset + length),
                       !.p2p_writes = Append(@, <<file_offset, length>>)]

\* DownloadAction::PerformAction, for an action that has its input object
\* (CHECK(HasInputObject()) aborts the process otherwise).
DownloadAction_PerformAction(s) ==
    LET s1 == [s EXCEPT !.install_plan_ = s.input_object,
                        !.bytes_received_ = 0,
                        !.slot_marked = TRUE]
        s2 == IF s1.writer_ # "nullptr"
                THEN s1
                ELSE [s1 EXCEPT !.delta_performer_ = TRUE,
                                !.writer_ = "delta_performer"]
        s3 == IF s2.delegate_
                THEN [s2 EXCEPT !.status = Append(@, TRUE)]
                ELSE s2
        s4 == IF s3.system_state_ = "sharing"
                THEN [s3 EXCEPT !.p2p_file_id_ = FileId]
                ELSE IF s3.system_state_ = "not_sharing" /\ s3.p2p_file # "absent"
                  THEN [s3 EXCEPT !.p2p_file = "absent",
                                  !.p2p_file_size = 0,
                                  !.p2p_unlinks = @ + 1]
                  ELSE s3
    IN  [s4 EXCEPT !.fetcher = "transferring"]

\* Faulty variant of TerminateProcessing: it completes the action itself
\* instead of leaving that to TransferTerminated.
DownloadAction_TerminateProcessing_Completes(s) ==
    LET s1 == IF s.writer_ # "nullptr"
                THEN [s EXCEPT !.applier_closes = @ + 1, !.writer_ = "nullptr"]
                ELSE s
        s2 == IF s1.delegate_
                THEN [s1 EXCEPT !.status = Append(@, FALSE)]
                ELSE s1
        s3 == CloseP2PSharingFd(s2, FALSE)
    IN  ActionComplete(
          [s3 EXCEPT !.terminate_transfers = @ + 1,
                     !.fetcher = IF @ = "transferring" THEN "terminating" ELSE @],
          s3.code_)

\* Faulty variant of TerminateProcessing: it deletes the share file.
DownloadAction_TerminateProcessing_Deletes(s) ==
    LET s1 == IF s.writer_ # "nullptr"
                THEN [s EXCEPT !.applier_closes = @ + 1, !.writer_ = "nullptr"]
                ELSE s
        s2 == IF s1.delegate_
                THEN [s1 EXCEPT !.status = Append(@, FALSE)]
                ELSE s1
        s3 == CloseP2PSharingFd(s2, TRUE)
    IN  [s3 EXCEPT !.terminate_transfers = @ + 1,
                   !.fetcher = IF @ = "transferring" THEN "terminating" ELSE @]

\* Faulty variant of TerminateProcessing: the applier is closed but writer_
\* is left pointing at it.
DownloadAction_TerminateProcessing_KeepsWriter(s) ==
    LET s1 == IF s.writer_ # "nullptr"
                THEN [s EXCEPT !.applier_closes = @ + 1]
                ELSE s
        s2 == IF s1.delegate_
                THEN [s1 EXCEPT !.status = Append(@, FALSE)]
                ELSE s1
        s3 == CloseP2PSharingFd(s2, FALSE)
    IN  [s3 EXCEPT !.terminate_transfers = @ + 1,
                   !.fetcher = IF @ = "transferring" THEN "terminating" ELSE @]

\* DownloadAction::TerminateProcessing
DownloadAction_TerminateProcessing(s) ==
    LET s1 == IF s.writer_ # "nullptr"
                THEN [s EXCEPT !.applier_closes = @ + 1, !.writer_ = "nullptr"]
                ELSE s
        s2 == IF s1.delegate_
                THEN [s1 EXCEPT !.status = Append(@, FALSE)]
                ELSE s1
        s3 == CloseP2PSharingFd(s2, FALSE)
    IN  [s3 EXCEPT !.terminate_transfers = @ + 1,
                   !.fetcher = IF @ = "transferring" THEN "terminating" ELSE @]

\* DownloadAction::SeekToOffset
SeekToOffset(s, offset) ==
    [s EXCEPT !.bytes_received_ = offset]

\* Faulty variant of the visibility promotion: it does not ask the applier
\* whether the manifest is valid.
MakeVisibleIfValid_Unchecked(s) ==
    IF ~s.p2p_visible_ /\ s.delta_performer_
      THEN [s EXCEPT !.make_visible = Append(@, s.p2p_file_id_),
                     !.p2p_file = IF s.p2p_file_id_ # "" /\ @ = "hidden"
                                    THEN "visible" ELSE @,
                     !.p2p_visible_ = TRUE]
      ELSE s

\* The tail of DownloadAction::ReceivedBytes: the visibility promotion.
MakeVisibleIfValid(s) ==
    IF ~s.p2p_visible_ /\ s.delta_performer_ /\ s.manifest_valid
      THEN [s EXCEPT !.make_visible = Append(@, s.p2p_file_id_),
                     !.p2p_file = IF s.p2p_file_id_ # "" /\ @ = "hidden"
                                    THEN "visible" ELSE @,
                     !.p2p_visible_ = TRUE]
      ELSE s

\* Faulty variant of ReceivedBytes: bytes_received_ is advanced before the
\* chunk is mirrored, so the mirror lands one chunk too far.
ReceivedBytes_AdvancesFirst(s, length, setup, io, result, valid) ==
    LET s0 == [s EXCEPT !.bytes_received_ = @ + length]
        s2 == IF s0.p2p_file_id_ # ""
                THEN WriteToP2PFile(s0, length, s0.bytes_received_, setup, io)
                ELSE s0
        s3 == IF s2.delegate_
                THEN [s2 EXCEPT !.progress = Append(@, s2.bytes_received_)]
                ELSE s2
    IN  IF s3.writer_ # "nullptr"
          THEN
            LET s4 == [s3 EXCEPT !.applier_writes = Append(@, length),
                                 !.code_ = result,
                                 !.applier_error = result,
                                 !.manifest_valid =
                                     @ \/ (valid /\ s3.writer_ = "delta_performer")]
            IN  IF result # kSuccess
                  THEN
                    LET s5 == IF s4.p2p_file_id_ # ""
                                THEN CloseP2PSharingFd(s4, TRUE)
                                ELSE s4
                    IN  DownloadAction_TerminateProcessing(s5)
                  ELSE MakeVisibleIfValid(s4)
          ELSE MakeVisibleIfValid(s3)

\* DownloadAction::ReceivedBytes. result is what writer_->Write stores in code_:
\* kSuccess when it returns true, the error when it returns false; valid is
\* whether the applier validates the manifest in the course of this Write.
ReceivedBytes(s, length, setup, io, result, valid) ==
    LET s1 == IF s.p2p_file_id_ # ""
                THEN WriteToP2PFile(s, length, s.bytes_received_, setup, io)
                ELSE s
        s2 == [s1 EXCEPT !.bytes_received_ = @ + length]
        s3 == IF s2.delegate_
                THEN [s2 EXCEPT !.progress = Append(@, s2.bytes_received_)]
                ELSE s2
    IN  IF s3.writer_ # "nullptr"
          THEN
            LET s4 == [s3 EXCEPT !.applier_writes = Append(@, length),
                                 !.code_ = result,
                                 !.applier_error = result,
                                 !.manifest_valid =
                                     @ \/ (valid /\ s3.writer_ = "delta_performer")]
            IN  IF result # kSuccess
                  THEN
                    LET s5 == IF s4.p2p_file_id_ # ""
                                THEN CloseP2PSharingFd(s4, TRUE)
                                ELSE s4
                    IN  DownloadAction_TerminateProcessing(s5)
                  ELSE MakeVisibleIfValid(s4)
          ELSE MakeVisibleIfValid(s3)

\* Faulty variant of TransferComplete: it verifies the payload whether or not
\* the transfer was successful.
TransferComplete_VerifiesAlways(s, successful, verify) ==
    LET s1 == IF s.writer_ # "nullptr"
                THEN [s EXCEPT !.applier_closes = @ + 1, !.writer_ = "nullptr"]
                ELSE s
        s2 == IF s1.delegate_
                THEN [s1 EXCEPT !.status = Append(@, FALSE)]
                ELSE s1
        verified == s2.delta_performer_
        code == IF verified THEN verify
                ELSE IF successful THEN kSuccess ELSE kDownloadTransferError
        s3 == IF verified
                THEN
                  LET v == [s2 EXCEPT !.verify_calls = @ + 1,
                                      !.verify_result = verify]
                  IN  IF code # kSuccess /\ v.p2p_file_id_ # ""
                        THEN CloseP2PSharingFd(v, TRUE)
                        ELSE v
                ELSE s2
        s4 == IF code = kSuccess /\ s3.has_output_pipe
                THEN [s3 EXCEPT !.output_object = s3.install_plan_]
                ELSE s3
    IN  ActionComplete(s4, code)

\* Faulty variant of TransferComplete: the share file is deleted whenever the
\* code is not kSuccess, a failed transfer included.
TransferComplete_DeletesOnFailure(s, successful, verify) ==
    LET s1 == IF s.writer_ # "nullptr"
                THEN [s EXCEPT !.applier_closes = @ + 1, !.writer_ = "nullptr"]
                ELSE s
        s2 == IF s1.delegate_
                THEN [s1 EXCEPT !.status = Append(@, FALSE)]
                ELSE s1
        code0 == IF successful THEN kSuccess ELSE kDownloadTransferError
        verified == code0 = kSuccess /\ s2.delta_performer_
        code == IF verified THEN verify ELSE code0
        v == IF verified
               THEN [s2 EXCEPT !.verify_calls = @ + 1, !.verify_result = verify]
               ELSE s2
        s3 == IF code # kSuccess /\ v.p2p_file_id_ # ""
                THEN CloseP2PSharingFd(v, TRUE)
                ELSE v
        s4 == IF code = kSuccess /\ s3.has_output_pipe
                THEN [s3 EXCEPT !.output_object = s3.install_plan_]
                ELSE s3
    IN  ActionComplete(s4, code)

\* DownloadAction::TransferComplete. verify is what VerifyPayload returns when
\* it is called.
TransferComplete(s, successful, verify) ==
    LET s1 == IF s.writer_ # "nullptr"
                THEN [s EXCEPT !.applier_closes = @ + 1, !.writer_ = "nullptr"]
                ELSE s
        s2 == IF s1.delegate_
                THEN [s1 EXCEPT !.status = Append(@, FALSE)]
                ELSE s1
        code0 == IF successful THEN kSuccess ELSE kDownloadTransferError
        verified == code0 = kSuccess /\ s2.delta_performer_
        code == IF verified THEN verify ELSE code0
        s3 == IF verified
                THEN
                  LET v == [s2 EXCEPT !.verify_calls = @ + 1,
                                      !.verify_result = verify]
                  IN  IF code # kSuccess /\ v.p2p_file_id_ # ""
                        THEN CloseP2PSharingFd(v, TRUE)
                        ELSE v
                ELSE s2
        s4 == IF code = kSuccess /\ s3.has_output_pipe
                THEN [s3 EXCEPT !.output_object = s3.install_plan_]
                ELSE s3
    IN  ActionComplete(s4, code)

\* Faulty variant of TransferTerminated: it reports a generic error instead
\* of the latched code.
TransferTerminated_GenericError(s) ==
    IF s.code_ # kSuccess
      THEN ActionComplete(s, kError)
      ELSE s

\* Faulty variant of TransferTerminated: it completes the action whether or
\* not an error is latched.
TransferTerminated_Always(s) ==
    ActionComplete(s, s.code_)

\* DownloadAction::TransferTerminated
TransferTerminated(s) ==
    IF s.code_ # kSuccess
      THEN ActionComplete(s, s.code_)
      ELSE s

----------------------------------------------------------------------------
(* The run of a DownloadAction: the processor performs it, the fetcher     *)
(* delivers its callbacks, the owner may stop the processor, and the share *)
(* file may be truncated from outside the process.                         *)

SetupOutcomes == {"ok", "share_fail", "open_fail", "fchmod_fail"}
IoOutcomes == {"ok", "stat_fail", "lseek_fail", "write_fail"}

\* The answers that can make a difference to this call: those of collaborators
\* the handler does not reach are left at "ok".
SetupChoices(s) ==
    IF s.p2p_file_id_ # "" /\ s.p2p_sharing_fd_ = -1 THEN SetupOutcomes ELSE {"ok"}
IoChoices(s) ==
    IF s.p2p_file_id_ # "" THEN IoOutcomes ELSE {"ok"}
ResultChoices(s) ==
    IF s.writer_ # "nullptr" THEN {kSuccess} \cup WriteErrors ELSE {kSuccess}
ValidChoices(s) ==
    IF s.writer_ = "delta_performer" /\ ~s.manifest_valid THEN BOOLEAN ELSE {FALSE}

DLPerform ==
    /\ dl.pc = "created"
    /\ IF dl.has_input
         THEN dl' = [DownloadAction_PerformAction(dl) EXCEPT
                        !.pc = "performed", !.op = "PerformAction"]
         ELSE dl' = [dl EXCEPT !.pc = "aborted", !.op = "PerformAction"]
    /\ UNCHANGED fv

DLSeekToOffset ==
    /\ dl.pc = "performed"
    /\ dl.fetcher = "transferring"
    /\ dl.op = "PerformAction"
    /\ \E offset \in 1..MaxOffset :
          dl' = [SeekToOffset(dl, offset) EXCEPT !.op = "SeekToOffset",
                                                 !.seek_offset = offset]
    /\ UNCHANGED fv

DLReceivedBytes ==
    /\ dl.pc = "performed"
    /\ dl.fetcher \in {"transferring", "terminating"}
    /\ dl.chunks < MaxChunks
    /\ \E length \in 1..MaxLen,
          setup \in SetupChoices(dl), io \in IoChoices(dl),
          result \in ResultChoices(dl), valid \in ValidChoices(dl) :
          dl' = [ReceivedBytes(dl, length, setup, io, result, valid) EXCEPT
                    !.op = "ReceivedBytes", !.chunks = @ + 1,
                    !.received = Append(@, length)]
    /\ UNCHANGED fv

DLTransferComplete ==
    /\ dl.pc = "performed"
    /\ dl.fetcher = "transferring"
    /\ \E successful \in BOOLEAN, verify \in {kSuccess} \cup VerifyErrors :
          dl' = [TransferComplete(dl, successful, verify) EXCEPT
                    !.op = "TransferComplete", !.fetcher = "done",
                    !.transfer = IF successful THEN "complete_true"
                                               ELSE "complete_false"]
    /\ UNCHANGED fv

DLTransferTerminated ==
    /\ dl.pc = "performed"
    /\ dl.fetcher = "terminating"
    /\ dl' = [TransferTerminated(dl) EXCEPT
                 !.op = "TransferTerminated", !.fetcher = "done",
                 !.transfer = "terminated"]
    /\ UNCHANGED fv

\* The owner stops the processor, which calls TerminateProcessing on the
\* running action.
DLTerminateProcessing ==
    /\ dl.pc = "performed"
    /\ dl.fetcher \in {"transferring", "terminating"}
    /\ dl.terminates < MaxTerminate
    /\ dl' = [DownloadAction_TerminateProcessing(dl) EXCEPT
                 !.op = "TerminateProcessing", !.terminates = @ + 1]
    /\ UNCHANGED fv

\* The share file loses its tail outside the process (a crash before the data
\* reached stable storage, a cleanup of the cache directory).
DLFileTruncated ==
    /\ dl.pc = "performed"
    /\ dl.fetcher = "transferring"
    /\ dl.p2p_file # "absent"
    /\ dl.p2p_sharing_fd_ # -1
    /\ dl.op # "FileTruncated"
    /\ \E size \in 0..(dl.p2p_file_size - 1) :
          dl' = [dl EXCEPT !.p2p_file_size = size, !.op = "FileTruncated"]
    /\ UNCHANGED fv

NextDL ==
    \/ DLPerform
    \/ DLSeekToOffset
    \/ DLReceivedBytes
    \/ DLTransferComplete
    \/ DLTransferTerminated
    \/ DLTerminateProcessing
    \/ DLFileTruncated

----------------------------------------------------------------------------
(* FilesystemVerifierAction.                                               *)
(*                                                                         *)
(* Sizes are byte counts; the model moves data in blocks of BlockBytes, so *)
(* every size is a multiple of BlockBytes and a read returns whole blocks. *)
(* The read buffer keeps the size the source gives it, two such blocks.    *)
(*                                                                         *)
(* Fields of fv, the members of the object:                                *)
(*   verifier_mode_, install_plan_, partition_index_, remaining_size_,     *)
(*   src_stream_ ("nullptr" | "open" | "closed"), buffer_ (its size),      *)
(*   read_done_, hasher_ ([alive, ctx]), cancelled_                        *)
(*   has_input, input_object, has_output_pipe, output_set, output_object   *)
(* the collaborators:                                                      *)
(*   devices        devices[i] is the length, in blocks, of the device     *)
(*                  that boot control resolves for the i-th partition in   *)
(*                  the slot of the mode                                   *)
(*   pending_read   bytes requested by the outstanding ReadAsync, or 0     *)
(*   stream_pos     bytes the open stream has delivered                    *)
(*   buffer_data    the blocks the last read left in buffer_               *)
(*   opens          indices of the partitions FileStream::Open was called  *)
(*                  for                                                    *)
(*   hashed         bytes fed to the hasher of the current partition       *)
(*   finished       for each partition whose hashing was finished, the     *)
(*                  bytes that had been fed to its hasher                  *)
(*   completions    codes passed to processor_->ActionComplete             *)
(*   failure        the first failure of a collaborator, "none" if none:   *)
(*                  "resolve", "file_size", "open", "read_async", "read",  *)
(*                  "short" (end of device before the declared size),      *)
(*                  "update", "finalize"                                   *)
(* and the position of the run: pc, op, terminates.                        *)
(***************************************************************************)

\* Largest partition size of the plans, in blocks.
MaxBlocks == 3
\* Largest number of partitions of an input plan.
MaxParts == 2

BlockBytes == 64 * 1024
kReadFileBufferSize == 128 * 1024

kComputeSourceHash == "kComputeSourceHash"
kVerifyTargetHash == "kVerifyTargetHash"
kInvalidSlot == "kInvalidSlot"
kLegacyPartitionNameRoot == "root"
kLegacyPartitionNameKernel == "kernel"

\* The j-th block of the device of the i-th partition.
DeviceBlock(i, j) == 1 + ((i + j) % 2)
\* The n blocks of that device that follow its first `from` blocks.
DeviceData(i, from, n) == [k \in 1..n |-> DeviceBlock(i, from + k)]

\* OmahaHashCalculator: the context after Update(data) and the raw hash after
\* Finalize. The digest is collision free on the data of the model (the
\* blocks are the digits 1 and 2 of a base-3 numeral) and never empty.
RECURSIVE HashUpdate(_, _)
HashUpdate(ctx, data) ==
    IF data = <<>> THEN ctx
    ELSE HashUpdate(ctx * 3 + Head(data), Tail(data))
raw_hash(ctx) == <<ctx>>

\* InstallPlan::Partition, with the fields the verifier reads and writes.
Partition(name, source_size, target_size, target_hash) ==
    [ name |-> name,
      source_size |-> source_size,
      source_hash |-> <<>>,
      target_size |-> target_size,
      target_hash |-> target_hash ]

\* InstallPlan
InstallPlan(is_full_update, source_slot, target_slot, partitions) ==
    [ is_full_update |-> is_full_update,
      source_slot |-> source_slot,
      target_slot |-> target_slot,
      partitions |-> partitions ]

EmptyPlan == InstallPlan(FALSE, kInvalidSlot, kInvalidSlot, <<>>)

\* FilesystemVerifierAction::FilesystemVerifierAction, with the pipes wired
\* and the devices of the run.
FilesystemVerifierAction(verifier_mode, has_input, plan, pipe, devices) ==
    [ verifier_mode_ |-> verifier_mode,
      install_plan_ |-> EmptyPlan,
      partition_index_ |-> 0,
      remaining_size_ |-> 0,
      src_stream_ |-> "nullptr",
      buffer_ |-> 0,
      read_done_ |-> FALSE,
      hasher_ |-> [alive |-> FALSE, ctx |-> 0],
      cancelled_ |-> FALSE,
      has_input |-> has_input,
      input_object |-> plan,
      has_output_pipe |-> pipe,
      output_set |-> FALSE,
      output_object |-> EmptyPlan,
      devices |-> devices,
      pending_read |-> 0,
      stream_pos |-> 0,
      buffer_data |-> <<>>,
      opens |-> <<>>,
      hashed |-> 0,
      finished |-> <<>>,
      completions |-> <<>>,
      failure |-> "none",
      pc |-> "created",
      op |-> "FilesystemVerifierAction",
      terminates |-> 0 ]

\* The record of a FilesystemVerifierAction that is not part of the run.
NoFilesystemVerifierAction ==
    [FilesystemVerifierAction(kVerifyTargetHash, FALSE, EmptyPlan, FALSE, <<>>)
        EXCEPT !.pc = "none", !.op = "none"]

\* A collaborator failed: the first failure of the run is remembered.
Failed(s, what) ==
    [s EXCEPT !.failure = IF @ = "none" THEN what ELSE @]

\* FilesystemVerifierAction::IsCleanupPending
IsCleanupPending(s) == s.src_stream_ # "nullptr"

\* Faulty variant of Cleanup: it does not return early when cancelled_ is set.
Cleanup_IgnoresCancelled(s, code) ==
    LET s1 == [s EXCEPT !.src_stream_ = "nullptr",
                        !.pending_read = 0,
                        !.buffer_ = 0]
        s2 == IF code = kSuccess /\ s1.has_output_pipe
                THEN [s1 EXCEPT !.output_set = TRUE,
                                !.output_object = s1.install_plan_]
                ELSE s1
    IN  ActionComplete(s2, code)

\* Faulty variant of Cleanup: the plan is written to the output pipe whatever
\* the completion code is.
Cleanup_OutputsAlways(s, code) ==
    LET s1 == [s EXCEPT !.src_stream_ = "nullptr",
                        !.pending_read = 0,
                        !.buffer_ = 0]
    IN  IF s1.cancelled_ THEN s1
        ELSE
          LET s2 == IF s1.has_output_pipe
                      THEN [s1 EXCEPT !.output_set = TRUE,
                                      !.output_object = s1.install_plan_]
                      ELSE s1
          IN  ActionComplete(s2, code)

\* FilesystemVerifierAction::Cleanup. Releasing the stream cancels the read
\* that is outstanding on it.
Cleanup(s, code) ==
    LET s1 == [s EXCEPT !.src_stream_ = "nullptr",
                        !.pending_read = 0,
                        !.buffer_ = 0]
    IN  IF s1.cancelled_ THEN s1
        ELSE
          LET s2 == IF code = kSuccess /\ s1.has_output_pipe
                      THEN [s1 EXCEPT !.output_set = TRUE,
                                      !.output_object = s1.install_plan_]
                      ELSE s1
          IN  ActionComplete(s2, code)

\* The slot whose devices the mode hashes.
ModeSlot(s) ==
    IF s.verifier_mode_ = kComputeSourceHash
      THEN s.install_plan_.source_slot
      ELSE s.install_plan_.target_slot

\* Answers of boot_control_->GetPartitionDevice: no device of an invalid
\* slot resolves.
Resolutions(slot) == IF slot = kInvalidSlot THEN {FALSE} ELSE BOOLEAN

RECURSIVE StartPartitionHashing(_)
RECURSIVE ScheduleRead(_)
RECURSIVE OnReadDoneCallback(_, _)
RECURSIVE FinishPartitionHashing(_)

\* Faulty variant of FinishPartitionHashing: it does not compare the hash with
\* target_hash.
FinishPartitionHashing_NoCompare(s) ==
    { Cleanup(Failed(s, "finalize"), kError) } \cup
    LET i == s.partition_index_ + 1
        hash == raw_hash(s.hasher_.ctx)
        next(t) == StartPartitionHashing(
                      [t EXCEPT !.partition_index_ = @ + 1,
                                !.finished = Append(@, t.hashed),
                                !.hasher_ = [alive |-> FALSE, ctx |-> 0],
                                !.buffer_ = 0,
                                !.src_stream_ = "closed"])
    IN  IF s.verifier_mode_ = kComputeSourceHash
          THEN next([s EXCEPT !.install_plan_.partitions[i].source_hash = hash])
          ELSE next(s)

\* FilesystemVerifierAction::FinishPartitionHashing: the states it can end in.
FinishPartitionHashing(s) ==
    { Cleanup(Failed(s, "finalize"), kError) } \cup
    LET i == s.partition_index_ + 1
        partition == s.install_plan_.partitions[i]
        hash == raw_hash(s.hasher_.ctx)
        next(t) == StartPartitionHashing(
                      [t EXCEPT !.partition_index_ = @ + 1,
                                !.finished = Append(@, t.hashed),
                                !.hasher_ = [alive |-> FALSE, ctx |-> 0],
                                !.buffer_ = 0,
                                !.src_stream_ = "closed"])
    IN  IF s.verifier_mode_ = kComputeSourceHash
          THEN next([s EXCEPT !.install_plan_.partitions[i].source_hash = hash])
          ELSE IF partition.target_hash # hash
            THEN { Cleanup(s, kNewRootfsVerificationError) }
            ELSE next(s)

\* Faulty variant of OnReadDoneCallback: a read of zero bytes finishes the
\* partition whatever remains of its declared size.
OnReadDoneCallback_FinishesShort(s, bytes_read) ==
    LET rest(t) ==
          IF t.cancelled_ THEN { Cleanup(t, kError) }
          ELSE IF t.read_done_ \/ t.remaining_size_ = 0
            THEN FinishPartitionHashing(t)
            ELSE ScheduleRead(t)
    IN  IF bytes_read = 0
          THEN rest([s EXCEPT !.read_done_ = TRUE])
          ELSE
            LET s1 == [s EXCEPT !.remaining_size_ = @ - bytes_read]
                fed == [s1 EXCEPT
                          !.hasher_.ctx = HashUpdate(@, SubSeq(s.buffer_data, 1,
                                                     bytes_read \div BlockBytes)),
                          !.hashed = @ + bytes_read]
            IN  { Cleanup(Failed(s1, "update"), kError) } \cup rest(fed)

\* FilesystemVerifierAction::OnReadDoneCallback, the read having left
\* bytes_read bytes in the buffer: the states it can end in.
OnReadDoneCallback(s, bytes_read) ==
    LET rest(t) ==
          IF t.cancelled_ THEN { Cleanup(t, kError) }
          ELSE IF t.read_done_ \/ t.remaining_size_ = 0
            THEN IF t.remaining_size_ # 0
                   THEN { Cleanup(Failed(t, "short"), kFilesystemVerifierError) }
                   ELSE FinishPartitionHashing(t)
            ELSE ScheduleRead(t)
    IN  IF bytes_read = 0
          THEN rest([s EXCEPT !.read_done_ = TRUE])
          ELSE
            LET s1 == [s EXCEPT !.remaining_size_ = @ - bytes_read]
                fed == [s1 EXCEPT
                          !.hasher_.ctx = HashUpdate(@, SubSeq(s.buffer_data, 1,
                                                     bytes_read \div BlockBytes)),
                          !.hashed = @ + bytes_read]
            IN  { Cleanup(Failed(s1, "update"), kError) } \cup rest(fed)

\* Faulty variant of ScheduleRead: it asks for a full buffer whatever remains
\* of the partition.
ScheduleRead_FullBuffer(s) ==
    LET bytes_to_read == IF s.remaining_size_ = 0 THEN 0 ELSE s.buffer_
    IN  IF bytes_to_read = 0
          THEN OnReadDoneCallback(s, 0)
          ELSE { [s EXCEPT !.pending_read = bytes_to_read],
                 Cleanup(Failed(s, "read_async"), kError) }

\* FilesystemVerifierAction::ScheduleRead: the states it can end in.
ScheduleRead(s) ==
    LET bytes_to_read == Min(s.buffer_, s.remaining_size_)
    IN  IF bytes_to_read = 0
          THEN OnReadDoneCallback(s, 0)
          ELSE { [s EXCEPT !.pending_read = bytes_to_read],
                 Cleanup(Failed(s, "read_async"), kError) }

\* Faulty variant of StartPartitionHashing: a partition of size zero is
\* skipped, neither opened nor hashed.
StartPartitionHashing_SkipsEmpty(s) ==
    IF s.partition_index_ = Len(s.install_plan_.partitions)
      THEN { Cleanup(s, kSuccess) }
      ELSE
        LET partition == s.install_plan_.partitions[s.partition_index_ + 1]
            s1 == [s EXCEPT !.remaining_size_ =
                              IF s.verifier_mode_ = kComputeSourceHash
                                THEN partition.source_size
                                ELSE partition.target_size]
            opened == [s1 EXCEPT !.src_stream_ = "open",
                                 !.stream_pos = 0,
                                 !.opens = Append(@, s.partition_index_),
                                 !.buffer_ = kReadFileBufferSize,
                                 !.read_done_ = FALSE,
                                 !.hasher_ = [alive |-> TRUE, ctx |-> 0],
                                 !.hashed = 0]
        IN  IF s1.remaining_size_ = 0
              THEN StartPartitionHashing([s1 EXCEPT !.partition_index_ = @ + 1])
              ELSE
                UNION { IF ~resolved
                          THEN { Cleanup(Failed(s1, "resolve"), kFilesystemVerifierError) }
                          ELSE { Cleanup(Failed([s1 EXCEPT !.opens = Append(@, s.partition_index_)],
                                                "open"),
                                         kFilesystemVerifierError) }
                               \cup ScheduleRead(opened)
                      : resolved \in Resolutions(ModeSlot(s)) }

\* FilesystemVerifierAction::StartPartitionHashing: the states it can end in.
StartPartitionHashing(s) ==
    IF s.partition_index_ = Len(s.install_plan_.partitions)
      THEN { Cleanup(s, kSuccess) }
      ELSE
        LET partition == s.install_plan_.partitions[s.partition_index_ + 1]
            s1 == [s EXCEPT !.remaining_size_ =
                              IF s.verifier_mode_ = kComputeSourceHash
                                THEN partition.source_size
                                ELSE partition.target_size]
            opened == [s1 EXCEPT !.src_stream_ = "open",
                                 !.stream_pos = 0,
                                 !.opens = Append(@, s.partition_index_),
                                 !.buffer_ = kReadFileBufferSize,
                                 !.read_done_ = FALSE,
                                 !.hasher_ = [alive |-> TRUE, ctx |-> 0],
                                 !.hashed = 0]
        IN  UNION { IF ~resolved
                      THEN { Cleanup(Failed(s1, "resolve"), kFilesystemVerifierError) }
                      ELSE { Cleanup(Failed([s1 EXCEPT !.opens = Append(@, s.partition_index_)],
                                            "open"),
                                     kFilesystemVerifierError) }
                           \cup ScheduleRead(opened)
                  : resolved \in Resolutions(ModeSlot(s)) }

\* FilesystemVerifierAction::OnReadErrorCallback
OnReadErrorCallback(s) ==
    Cleanup(Failed(s, "read"), kError)

\* FilesystemVerifierAction::TerminateProcessing
FilesystemVerifierAction_TerminateProcessing(s) ==
    Cleanup([s EXCEPT !.cancelled_ = TRUE], kSuccess)

\* ScopedActionCompleter: when PerformAction returns with the guard still
\* armed, the guard completes the action with its code, kError unless set.
ScopedActionCompleter(s, should_complete, code) ==
    IF should_complete THEN ActionComplete(s, code) ELSE s

\* The legacy partitions PerformAction synthesizes. root_size is what
\* utils::GetFilesystemSize gives for the root device (-1: it fails, and the
\* size stays 0), kernel_size what utils::FileSize gives for the kernel
\* device (-1: it fails).
LegacyPartitions(s, root_ok, root_size, kernel_ok, kernel_size) ==
    LET root == Partition(kLegacyPartitionNameRoot,
                          IF root_size >= 0 THEN root_size ELSE 0, 0, <<>>)
        kernel == Partition(kLegacyPartitionNameKernel, kernel_size, 0, <<>>)
    IN  IF ~root_ok THEN [ok |-> FALSE, s |-> Failed(s, "resolve")]
        ELSE
          LET s1 == [s EXCEPT !.install_plan_.partitions = Append(@, root)]
          IN  IF ~kernel_ok THEN [ok |-> FALSE, s |-> Failed(s1, "resolve")]
              ELSE IF kernel_size < 0 THEN [ok |-> FALSE, s |-> Failed(s1, "file_size")]
              ELSE [ok |-> TRUE,
                    s |-> [s1 EXCEPT !.install_plan_.partitions = Append(@, kernel)]]

\* The sizes the legacy devices can report: a failure, or the size of a
\* prefix of the device.
LegacySizes(s, i) ==
    {-1} \cup { k * BlockBytes : k \in 0..(IF i <= Len(s.devices) THEN s.devices[i] ELSE 0) }

\* Faulty variant of PerformAction: the legacy partitions are synthesized for
\* an empty list whatever the mode and the kind of update are.
FilesystemVerifierAction_PerformAction_LegacyAlways(s) ==
    IF ~s.has_input
      THEN { ScopedActionCompleter(s, TRUE, kError) }
      ELSE
        LET s1 == [s EXCEPT !.install_plan_ = s.input_object]
            legacy == s1.install_plan_.partitions = <<>>
            synthesized ==
                IF legacy
                  THEN { LegacyPartitions(s1, root_ok, root_size, kernel_ok, kernel_size) :
                           root_ok \in Resolutions(s1.install_plan_.source_slot),
                           root_size \in LegacySizes(s1, 1),
                           kernel_ok \in Resolutions(s1.install_plan_.source_slot),
                           kernel_size \in LegacySizes(s1, 2) }
                  ELSE { [ok |-> TRUE, s |-> s1] }
        IN  UNION { IF ~r.ok
                      THEN { ScopedActionCompleter(r.s, TRUE, kError) }
                      ELSE IF r.s.install_plan_.partitions = <<>>
                        THEN { ScopedActionCompleter(
                                 IF r.s.has_output_pipe
                                   THEN [r.s EXCEPT !.output_set = TRUE,
                                                    !.output_object = r.s.install_plan_]
                                   ELSE r.s,
                                 TRUE, kSuccess) }
                        ELSE { ScopedActionCompleter(t, FALSE, kError) :
                                 t \in StartPartitionHashing(r.s) }
                  : r \in synthesized }

\* FilesystemVerifierAction::PerformAction: the states it can end in.
FilesystemVerifierAction_PerformAction(s) ==
    IF ~s.has_input
      THEN { ScopedActionCompleter(s, TRUE, kError) }
      ELSE
        LET s1 == [s EXCEPT !.install_plan_ = s.input_object]
            legacy == /\ ~s1.install_plan_.is_full_update
                      /\ s1.install_plan_.partitions = <<>>
                      /\ s1.verifier_mode_ = kComputeSourceHash
            synthesized ==
                IF legacy
                  THEN { LegacyPartitions(s1, root_ok, root_size, kernel_ok, kernel_size) :
                           root_ok \in Resolutions(s1.install_plan_.source_slot),
                           root_size \in LegacySizes(s1, 1),
                           kernel_ok \in Resolutions(s1.install_plan_.source_slot),
                           kernel_size \in LegacySizes(s1, 2) }
                  ELSE { [ok |-> TRUE, s |-> s1] }
        IN  UNION { IF ~r.ok
                      THEN { ScopedActionCompleter(r.s, TRUE, kError) }
                      ELSE IF r.s.install_plan_.partitions = <<>>
                        THEN { ScopedActionCompleter(
                                 IF r.s.has_output_pipe
                                   THEN [r.s EXCEPT !.output_set = TRUE,
                                                    !.output_object = r.s.install_plan_]
                                   ELSE r.s,
                                 TRUE, kSuccess) }
                        ELSE { ScopedActionCompleter(t, FALSE, kError) :
                                 t \in StartPartitionHashing(r.s) }
                  : r \in synthesized }

----------------------------------------------------------------------------
(* The run of a FilesystemVerifierAction: the processor performs it, the   *)
(* stream delivers the read callbacks, the owner may stop the processor.   *)

PartitionName(i) ==
    IF i = 1 THEN kLegacyPartitionNameRoot
    ELSE IF i = 2 THEN kLegacyPartitionNameKernel
    ELSE "vendor"

\* Partition sizes of the input plans, in blocks: empty, shorter than the
\* read buffer, longer than the read buffer.
SizeChoices == {0, 1, MaxBlocks}

\* The hash over the first `size` bytes of the device of partition i.
DeviceHash(i, size) ==
    raw_hash(HashUpdate(0, DeviceData(i, 0, size \div BlockBytes)))

\* The i-th partition of an input plan whose size for the mode is `blocks`
\* blocks, its target_hash being the hash of the device's first blocks
\* (match) or that of one block more. The size the mode does not use is set
\* to two blocks, which no size of the mode is.
InputPartition(mode, i, blocks, match) ==
    IF mode = kComputeSourceHash
      THEN Partition(PartitionName(i), blocks * BlockBytes, 2 * BlockBytes, <<>>)
      ELSE Partition(PartitionName(i), 2 * BlockBytes, blocks * BlockBytes,
                     DeviceHash(i, (IF match THEN blocks ELSE blocks + 1) * BlockBytes))

\* The device of a partition of `blocks` blocks either holds one block more
\* than the partition or ends one block short of it.
DeviceBlocks(blocks, short) == IF short THEN blocks - 1 ELSE blocks + 1

\* Each legacy device holds this many blocks.
LegacyDevices == <<1, 1>>

\* A freshly constructed DownloadAction in each configuration of its
\* collaborators; no FilesystemVerifierAction runs beside it.
InitDL ==
    /\ \E has_input \in BOOLEAN, test_writer \in BOOLEAN, delegate \in BOOLEAN,
          pipe \in BOOLEAN, sys \in {"nullptr", "sharing", "not_sharing"},
          file \in {"absent", "hidden", "visible"}, size \in 0..MaxOffset :
          /\ file = "absent" => size = 0
          /\ dl = DownloadAction(has_input, test_writer, delegate, pipe, sys,
                                 file, size)
    /\ fv = NoFilesystemVerifierAction

\* A freshly constructed FilesystemVerifierAction over each install plan and
\* set of devices; no DownloadAction runs beside it.
InitFV ==
    /\ dl = NoDownloadAction
    /\ \E mode \in {kComputeSourceHash, kVerifyTargetHash}, has_input \in BOOLEAN,
          pipe \in BOOLEAN, full \in BOOLEAN, slot_valid \in BOOLEAN, n \in 0..MaxParts :
          \E sizes \in [1..n -> SizeChoices], match \in [1..n -> BOOLEAN],
             short \in [1..n -> BOOLEAN] :
             /\ ~has_input => (n = 0 /\ full /\ slot_valid)
             /\ mode = kComputeSourceHash => \A i \in 1..n : match[i]
             /\ \A i \in 1..n : short[i] => sizes[i] > 0
             /\ fv = FilesystemVerifierAction(
                       mode, has_input,
                       InstallPlan(full,
                                   IF mode = kComputeSourceHash /\ ~slot_valid
                                     THEN kInvalidSlot ELSE "A",
                                   IF mode = kVerifyTargetHash /\ ~slot_valid
                                     THEN kInvalidSlot ELSE "B",
                                   [i \in 1..n |->
                                      InputPartition(mode, i, sizes[i], match[i])]),
                       pipe,
                       IF n = 0 THEN LegacyDevices
                       ELSE [i \in 1..n |-> DeviceBlocks(sizes[i], short[i])])

FVPerform ==
    /\ fv.pc = "created"
    /\ \E t \in FilesystemVerifierAction_PerformAction(fv) :
          fv' = [t EXCEPT !.pc = "performed", !.op = "PerformAction"]
    /\ UNCHANGED dl

\* The outstanding read completes: with no bytes at the end of the device,
\* with some or all of the requested blocks otherwise.
FVReadDone ==
    /\ fv.pc = "performed"
    /\ fv.pending_read > 0
    /\ LET i == fv.partition_index_ + 1
           available == fv.devices[i] * BlockBytes - fv.stream_pos
           counts == IF available <= 0 THEN {0}
                     ELSE { k * BlockBytes :
                              k \in 1..(Min(fv.pending_read, available) \div BlockBytes) }
       IN  \E bytes_read \in counts :
           \E t \in OnReadDoneCallback(
                      [fv EXCEPT !.pending_read = 0,
                                 !.stream_pos = @ + bytes_read,
                                 !.buffer_data =
                                     DeviceData(i, fv.stream_pos \div BlockBytes,
                                                bytes_read \div BlockBytes)],
                      bytes_read) :
              fv' = [t EXCEPT !.op = "OnReadDoneCallback"]
    /\ UNCHANGED dl

\* The outstanding read fails.
FVReadError ==
    /\ fv.pc = "performed"
    /\ fv.pending_read > 0
    /\ fv' = [OnReadErrorCallback([fv EXCEPT !.pending_read = 0]) EXCEPT
                 !.op = "OnReadErrorCallback"]
    /\ UNCHANGED dl

\* The owner stops the processor, which calls TerminateProcessing on the
\* running action.
FVTerminateProcessing ==
    /\ fv.pc = "performed"
    /\ fv.completions = <<>>
    /\ fv.terminates < MaxTerminate
    /\ fv' = [FilesystemVerifierAction_TerminateProcessing(fv) EXCEPT
                 !.op = "TerminateProcessing", !.terminates = @ + 1]
    /\ UNCHANGED dl

NextFV ==
    \/ FVPerform
    \/ FVReadDone
    \/ FVReadError
    \/ FVTerminateProcessing

----------------------------------------------------------------------------
(* Specifications: one action alone, and a run of either.                  *)

SpecDL == InitDL /\ [][NextDL]_vars

SpecFV == InitFV /\ [][NextFV]_vars

Init ==
    \/ InitDL
    \/ InitFV

Next ==
    \/ NextDL
    \/ NextFV

Spec == Init /\ [][Next]_vars


----------------------------------------------------------------------------
(* Properties.                                                             *)

\* A step of the run that is the handler `name` of the DownloadAction.
DLStep(name) == dl' # dl /\ dl'.op = name

\* A received_bytes call in which the applier's Write returned false.
WriteFailedStep ==
    /\ DLStep("ReceivedBytes")
    /\ Len(dl'.applier_writes) = Len(dl.applier_writes) + 1
    /\ dl'.applier_error # kSuccess

\* C1: when terminate_processing is not requested from outside, ActionComplete
\* is never called twice, and it has been called exactly once when every
\* callback of the action has been delivered: the end-of-transfer callback of
\* a DownloadAction (also after an applier write failure), and for a
\* FilesystemVerifierAction the return of PerformAction or of the read callback
\* that leaves no read outstanding (also when PerformAction fails early).
C1_CompletesExactlyOnce ==
    /\ dl.terminates = 0 =>
         /\ Len(dl.completions) <= 1
         /\ dl.fetcher = "done" => Len(dl.completions) = 1
    /\ fv.terminates = 0 =>
         /\ Len(fv.completions) <= 1
         /\ (fv.pc = "performed" /\ fv.pending_read = 0) => Len(fv.completions) = 1

\* The applier's write failed, the fetcher delivered transfer_terminated, and
\* the action has completed once.
C1_Witness ==
    /\ dl.terminates = 0
    /\ dl.applier_error # kSuccess
    /\ dl.transfer = "terminated"
    /\ Len(dl.completions) = 1

\* C2 as stated: at the end of the transfer verify_payload has been called
\* exactly once if the transfer reported success and not at all otherwise.
C2_Original ==
    dl.fetcher = "done" =>
        dl.verify_calls = IF dl.transfer = "complete_true" THEN 1 ELSE 0

\* C2, amended: verify_payload is called exactly once if the transfer reports
\* success and the action runs its own DeltaPerformer (no test writer was set
\* before PerformAction), and not at all otherwise; it is never called before
\* the end-of-transfer callback.
C2_VerifyOnceIffSuccess ==
    /\ dl.fetcher # "done" => dl.verify_calls = 0
    /\ dl.fetcher = "done" =>
         dl.verify_calls =
            IF dl.transfer = "complete_true" /\ dl.delta_performer_ THEN 1 ELSE 0

\* A transfer of two chunks that reported success and was verified once.
C2_Witness ==
    /\ dl.transfer = "complete_true"
    /\ Len(dl.applier_writes) = 2
    /\ dl.verify_calls = 1

\* C3: a received_bytes call in which the applier's write fails with code E
\* calls nothing on the processor, leaves E in code_ and requests the
\* termination of the fetcher; until transfer_terminated arrives the action has
\* not completed; transfer_terminated completes the action with E when an error
\* is latched and calls nothing on the processor when none is.
C3_LatchedErrorSurfacesAtTermination ==
    /\ [](((dl.applier_error # kSuccess) /\ dl.fetcher # "done")
             => dl.completions = <<>>)
    /\ [][ /\ WriteFailedStep =>
                /\ dl'.completions = dl.completions
                /\ dl'.code_ = dl'.applier_error
                /\ dl'.terminate_transfers = dl.terminate_transfers + 1
                /\ dl'.fetcher = "terminating"
           /\ DLStep("TransferTerminated") =>
                dl'.completions =
                   IF dl.code_ # kSuccess
                     THEN Append(dl.completions, dl.applier_error)
                     ELSE dl.completions ]_vars

\* The second chunk failed in the applier and transfer_terminated surfaced
\* the applier's code.
C3_Witness ==
    /\ dl.transfer = "terminated"
    /\ Len(dl.applier_writes) = 2
    /\ dl.applier_error \in WriteErrors
    /\ dl.completions = <<dl.applier_error>>

\* The owner called terminate_processing, no applier error is latched, and
\* transfer_terminated has been delivered.
VoluntarilyTerminated ==
    /\ dl.terminates > 0
    /\ dl.code_ = kSuccess
    /\ dl.transfer = "terminated"

Mismatching ==
    { i \in 1..Len(fv.input_object.partitions) :
        DeviceHash(i, fv.input_object.partitions[i].target_size)
           # fv.input_object.partitions[i].target_hash }

Least(S) == CHOOSE i \in S : \A j \in S : i <= j

\* C6: in VerifyTargetHash mode, given an input plan and no failure of a
\* collaborator (I/O, a device that ends before target_size, hash library),
\* the action completes with kSuccess iff the hash over the first target_size
\* bytes of every partition's device equals its target_hash; otherwise it
\* completes with kNewRootfsVerificationError at the first partition whose
\* hash differs, having opened no later partition.
C6_VerifyTargetHash ==
    ( /\ fv.verifier_mode_ = kVerifyTargetHash
      /\ fv.has_input
      /\ fv.failure = "none"
      /\ fv.completions # <<>> ) =>
        IF Mismatching = {}
          THEN fv.completions = <<kSuccess>>
          ELSE /\ fv.completions = <<kNewRootfsVerificationError>>
               /\ fv.partition_index_ = Least(Mismatching) - 1
               /\ fv.opens = [k \in 1..Least(Mismatching) |-> k - 1]

\* Two partitions verified, the second longer than the read buffer.
C6_Witness ==
    /\ fv.verifier_mode_ = kVerifyTargetHash
    /\ fv.completions = <<kSuccess>>
    /\ Len(fv.install_plan_.partitions) = 2
    /\ fv.install_plan_.partitions[2].target_size > kReadFileBufferSize
    /\ fv.failure = "none"

C8_P2PVisibility ==
    /\ [](dl.p2p_file \in {"absent", "hidden", "visible"})
    /\ [][ /\ dl'.make_visible # dl.make_visible =>
                /\ DLStep("ReceivedBytes")
                /\ dl'.manifest_valid
                /\ Len(dl'.make_visible) = Len(dl.make_visible) + 1
           /\ dl.p2p_file = "visible" => dl'.p2p_file # "hidden"
           /\ (dl.p2p_file = "visible" /\ dl.p2p_visible_ /\ dl'.p2p_file = "visible")
                => dl'.p2p_visible_ ]_vars

\* The file was created hidden, promoted in a later call, and the transfer
\* went on to its end with the file visible.
C8_Witness ==
    /\ dl.make_visible = <<FileId>>
    /\ dl.p2p_file = "visible"
    /\ dl.p2p_visible_
    /\ Len(dl.p2p_writes) = 2
    /\ dl.transfer = "complete_true"

\* C9: with P2P sharing in use, a terminate_processing from outside closes
\* the descriptor and neither unlinks nor changes the share file; a
\* received_bytes call in which the applier's write fails, and a
\* transfer_complete in which verify_payload does not return kSuccess, unlink
\* the share file, so that it is absent when the action completes.
C9_P2PFileOnTermination ==
    /\ []((dl.system_state_ = "sharing" /\ dl.completions # <<>>
              /\ dl.completions[1] \in WriteErrors \cup VerifyErrors)
            => dl.p2p_file = "absent")
    /\ [][ /\ DLStep("TerminateProcessing") =>
                /\ dl'.p2p_file = dl.p2p_file
                /\ dl'.p2p_file_size = dl.p2p_file_size
                /\ dl'.p2p_unlinks = dl.p2p_unlinks
                /\ dl'.p2p_sharing_fd_ = -1
           /\ (WriteFailedStep /\ dl.p2p_file_id_ # "") =>
                /\ dl'.p2p_file = "absent"
                /\ dl'.p2p_unlinks > dl.p2p_unlinks
                /\ dl'.completions = <<>>
           /\ ( /\ DLStep("TransferComplete")
                /\ dl'.verify_calls > dl.verify_calls
                /\ dl'.completions[1] # kSuccess
                /\ dl.p2p_file_id_ # "" ) =>
                /\ dl'.p2p_file = "absent"
                /\ dl'.p2p_unlinks = dl.p2p_unlinks + 1 ]_vars

\* The owner terminated a transfer that was mirroring: the descriptor is
\* closed and the file is still there.
C9_Witness ==
    /\ dl.op = "TerminateProcessing"
    /\ dl.terminates = 1
    /\ Len(dl.p2p_writes) >= 1
    /\ dl.p2p_sharing_fd_ = -1
    /\ dl.p2p_file = "hidden"
    /\ dl.p2p_unlinks = 0

\* C10: a received_bytes call with P2P sharing active either mirrors the chunk
\* at the current offset or, when the file is shorter than the offset or the
\* setup, stat, seek or write fails, closes and deletes the file and clears
\* p2p_file_id_; the chunk is handed to the applier in the same call; and once
\* p2p_file_id_ is cleared no file is opened or written for the rest of the
\* transfer.
C10_CorruptP2PFileDisablesSharing ==
    [][ /\ (DLStep("ReceivedBytes") /\ dl.p2p_file_id_ # "") =>
             /\ \/ /\ dl.p2p_file_size >= dl.bytes_received_
                   /\ dl'.p2p_writes =
                        Append(dl.p2p_writes,
                               <<dl.bytes_received_,
                                 dl'.bytes_received_ - dl.bytes_received_>>)
                \/ /\ dl'.p2p_writes = dl.p2p_writes
                   /\ dl'.p2p_sharing_fd_ = -1
                   /\ dl'.p2p_file = "absent"
                   /\ dl'.p2p_file_id_ = ""
                   /\ dl'.p2p_unlinks = dl.p2p_unlinks + 1
             /\ dl.p2p_file_size < dl.bytes_received_ =>
                   dl'.p2p_writes = dl.p2p_writes
             /\ dl.writer_ # "nullptr" =>
                   dl'.applier_writes =
                      Append(dl.applier_writes,
                             dl'.bytes_received_ - dl.bytes_received_)
        /\ (dl.pc = "performed" /\ dl.p2p_file_id_ = "") =>
             /\ dl'.p2p_file_id_ = ""
             /\ dl'.p2p_sharing_fd_ = -1
             /\ dl'.p2p_opens = dl.p2p_opens
             /\ dl'.p2p_writes = dl.p2p_writes ]_vars

\* The file was found shorter than the offset of the second chunk and was
\* deleted; both chunks reached the applier and the download succeeded.
C10_Witness ==
    /\ dl.p2p_short
    /\ Len(dl.p2p_writes) = 1
    /\ dl.p2p_file = "absent"
    /\ dl.p2p_file_id_ = ""
    /\ Len(dl.applier_writes) = 2
    /\ dl.completions = <<kSuccess>>

\* The sum of the first k lengths the fetcher delivered.
RECURSIVE ReceivedUpTo(_)
ReceivedUpTo(k) == IF k = 0 THEN 0 ELSE ReceivedUpTo(k - 1) + dl.received[k]

\* The stream offset after the k-th chunk: the offset sought plus the chunks.
OffsetAfter(k) == dl.seek_offset + ReceivedUpTo(k)

\* C11: after seek_to_offset(o) and received_bytes calls of lengths l1..ln,
\* bytes_received_ is o + l1 + ... + ln; the chunks handed to the applier are
\* the chunks delivered, in arrival order and without a gap, all of them while
\* the applier is attached; the k-th mirrored write is the k-th chunk at file
\* offset o + l1 + ... + l(k-1); and the k-th progress value reported to the
\* delegate is o + l1 + ... + lk.
C11_ChunksInOffsetOrder ==
    dl.pc = "performed" =>
        /\ dl.bytes_received_ = OffsetAfter(Len(dl.received))
        /\ Len(dl.applier_writes) <= Len(dl.received)
        /\ dl.applier_writes = SubSeq(dl.received, 1, Len(dl.applier_writes))
        /\ dl.writer_ # "nullptr" => dl.applier_writes = dl.received
        /\ Len(dl.p2p_writes) <= Len(dl.received)
        /\ \A k \in 1..Len(dl.p2p_writes) :
              dl.p2p_writes[k] = <<OffsetAfter(k - 1), dl.received[k]>>
        /\ dl.p2p_sharing_fd_ # -1 => Len(dl.p2p_writes) = Len(dl.received)
        /\ dl.progress = IF dl.delegate_
                           THEN [k \in 1..Len(dl.received) |-> OffsetAfter(k)]
                           ELSE <<>>

\* A transfer resumed at offset 1 whose chunks of lengths 2 and 1 reached the
\* applier, the share file and the delegate.
C11_Witness ==
    /\ dl.seek_offset = 1
    /\ dl.received = <<2, 1>>
    /\ dl.applier_writes = <<2, 1>>
    /\ dl.p2p_writes = << <<1, 2>>, <<3, 1>> >>
    /\ dl.progress = <<3, 4>>

\* C12: whenever an action has delivered its completion or has been
\* terminated, the descriptor it opened is released: p2p_sharing_fd_ is -1 for
\* the DownloadAction, src_stream_ is null for the FilesystemVerifierAction.
C12_DescriptorsReleased ==
    /\ (dl.completions # <<>> \/ dl.terminates > 0) => dl.p2p_sharing_fd_ = -1
    /\ (fv.completions # <<>> \/ fv.cancelled_) => fv.src_stream_ = "nullptr"

\* C13: an action has set its output object only if it has completed with
\* kSuccess, and the object is the install plan it holds (for the
\* DownloadAction the plan it got as input); an action that completed with
\* another code, or was cancelled, has set none; an action with an output pipe
\* that completed with kSuccess has set it.
C13_OutputOnlyOnSuccess ==
    /\ dl.output_object # "none" =>
          /\ dl.completions = <<kSuccess>>
          /\ dl.has_output_pipe
          /\ dl.output_object = dl.install_plan_
          /\ dl.output_object = dl.input_object
    /\ (dl.completions = <<kSuccess>> /\ dl.has_output_pipe) =>
          dl.output_object # "none"
    /\ fv.output_set =>
          /\ fv.completions = <<kSuccess>>
          /\ fv.has_output_pipe
          /\ ~fv.cancelled_
          /\ fv.output_object = fv.install_plan_
    /\ ~fv.output_set => fv.output_object = EmptyPlan
    /\ (fv.completions = <<kSuccess>> /\ fv.has_output_pipe) => fv.output_set

\* A source hasher that hashed two partitions and forwarded the plan with
\* their hashes.
C13_Witness ==
    /\ fv.output_set
    /\ fv.verifier_mode_ = kComputeSourceHash
    /\ Len(fv.output_object.partitions) = 2
    /\ fv.output_object.partitions[2].source_hash # <<>>
    /\ fv.output_object.partitions[2].source_size > kReadFileBufferSize

\* C14 as stated: after transfer_complete(false) the action has completed with
\* kDownloadTransferError, the applier is closed and verify_payload was not
\* called; after transfer_complete(true) the completion code is the code
\* verify_payload returned.
C14_Original ==
    /\ dl.transfer = "complete_false" =>
          /\ dl.completions = <<kDownloadTransferError>>
          /\ dl.applier_closes = 1
          /\ dl.verify_calls = 0
    /\ dl.transfer = "complete_true" =>
          /\ dl.verify_calls = 1
          /\ dl.completions = <<dl.verify_result>>

\* C14, amended: transfer_complete(false) completes the action with
\* kDownloadTransferError, closes the applier, does not call verify_payload and
\* leaves the share file as it is; transfer_complete(true) completes it with
\* the code verify_payload returns when the action runs its own DeltaPerformer,
\* and with kSuccess, verify_payload not being called, when a writer was set
\* for test.
C14_TransferCompleteCode ==
    /\ [](dl.transfer = "complete_false" =>
            /\ dl.completions = <<kDownloadTransferError>>
            /\ dl.applier_closes = 1
            /\ dl.writer_ = "nullptr"
            /\ dl.verify_calls = 0)
    /\ []((dl.transfer = "complete_true" /\ dl.delta_performer_) =>
            /\ dl.verify_calls = 1
            /\ dl.completions = <<dl.verify_result>>)
    /\ []((dl.transfer = "complete_true" /\ ~dl.delta_performer_) =>
            /\ dl.verify_calls = 0
            /\ dl.completions = <<kSuccess>>)
    /\ [][(DLStep("TransferComplete") /\ dl'.transfer = "complete_false") =>
            /\ dl'.p2p_file = dl.p2p_file
            /\ dl'.p2p_file_size = dl.p2p_file_size
            /\ dl'.p2p_unlinks = dl.p2p_unlinks
            /\ dl'.applier_closes = dl.applier_closes + 1]_vars

\* A mirrored transfer that failed: the share file is still there.
C14_Witness ==
    /\ dl.transfer = "complete_false"
    /\ dl.completions = <<kDownloadTransferError>>
    /\ Len(dl.p2p_writes) = 2
    /\ dl.p2p_file = "hidden"
    /\ dl.p2p_unlinks = 0

\* The size of the k-th partition of the plan the verifier holds, for its mode.
ModeSize(k) ==
    IF fv.verifier_mode_ = kComputeSourceHash
      THEN fv.install_plan_.partitions[k].source_size
      ELSE fv.install_plan_.partitions[k].target_size

\* C15: a partition whose size for the mode is zero is finished at once with
\* success and its device is never opened: no partition of size zero is among
\* those FileStream::Open was called for, and an input plan whose partitions
\* all have size zero is completed with kSuccess by PerformAction itself.
C15_ZeroSizeNotOpened ==
    fv.pc = "performed" =>
        /\ \A k \in 1..Len(fv.opens) : ModeSize(fv.opens[k] + 1) > 0
        /\ ( /\ fv.has_input
             /\ fv.input_object.partitions # <<>>
             /\ \A k \in 1..Len(fv.install_plan_.partitions) : ModeSize(k) = 0 )
           => fv.completions = <<kSuccess>>

\* A read callback that delivered no byte: the device had ended.
ZeroByteReadStep ==
    /\ fv' # fv
    /\ fv'.op = "OnReadDoneCallback"
    /\ fv.pending_read > 0
    /\ fv.stream_pos >= fv.devices[fv.partition_index_ + 1] * BlockBytes

\* C16: a read that completes with zero bytes while remaining_size_ > 0
\* completes the action with kFilesystemVerifierError, records no hash for the
\* partition (the plan is left as it was) and neither opens nor hashes a later
\* partition; and the hashing of a partition is finished only when all the
\* bytes of its declared size have been fed to the hasher (remaining_size_ is
\* 0).
C16_ShortPartitionFails ==
    /\ [](fv.failure = "short" =>
            /\ fv.completions = <<kFilesystemVerifierError>>
            /\ fv.remaining_size_ > 0
            /\ Len(fv.finished) = fv.partition_index_
            /\ fv.install_plan_.partitions[fv.partition_index_ + 1].source_hash = <<>>
            /\ ~fv.output_set)
    /\ [](\A k \in 1..Len(fv.finished) : fv.finished[k] = ModeSize(k))
    /\ [][ZeroByteReadStep =>
            /\ fv.remaining_size_ > 0
            /\ fv'.failure = "short"
            /\ fv'.completions = <<kFilesystemVerifierError>>
            /\ fv'.install_plan_ = fv.install_plan_
            /\ fv'.partition_index_ = fv.partition_index_
            /\ fv'.finished = fv.finished
            /\ fv'.opens = fv.opens
            /\ fv'.hashed = fv.hashed]_vars

\* The device of the second partition ended after part of the partition had
\* been hashed.
C16_Witness ==
    /\ fv.failure = "short"
    /\ fv.partition_index_ = 1
    /\ fv.hashed > 0
    /\ fv.remaining_size_ > 0
    /\ fv.completions = <<kFilesystemVerifierError>>

\* C17: when a collaborator failed, the completion code says which kind: an
\* I/O failure (a device path that does not resolve, a device that does not
\* open, a read that cannot be scheduled, a read that reports an error)
\* completes the action with kFilesystemVerifierError, a failure of the hash
\* library (update or finalize) with kError.
C17_FailureCodes ==
    fv.completions # <<>> =>
        /\ fv.failure \in {"resolve", "open", "read_async", "read"} =>
              fv.completions = <<kFilesystemVerifierError>>
        /\ fv.failure \in {"update", "finalize"} =>
              fv.completions = <<kError>>

\* The verifier got a delta update without partitions to compute the source
\* hashes of: the case in which PerformAction synthesizes the legacy partitions.
LegacyCase ==
    /\ fv.has_input
    /\ ~fv.input_object.is_full_update
    /\ fv.input_object.partitions = <<>>
    /\ fv.verifier_mode_ = kComputeSourceHash

\* C18: in the legacy case the plan that is hashed holds exactly the partitions
\* "root" and "kernel", in this order; when the action completes with kSuccess
\* each has its source_size (a size its device reported, 0 for a root file
\* system whose size could not be read) and a non-empty source_hash, the hash
\* over the first source_size bytes of its device, and the plan is the output.
\* If a legacy device does not resolve the action completes with a code other
\* than kSuccess and sets no output. For an empty partition list in
\* VerifyTargetHash mode or of a full update nothing is synthesized, no device
\* is opened and the action completes with kSuccess.
C18_LegacyPartitions ==
    fv.pc = "performed" =>
        /\ (LegacyCase /\ (fv.opens # <<>> \/ fv.completions = <<kSuccess>>)) =>
              /\ Len(fv.install_plan_.partitions) = 2
              /\ fv.install_plan_.partitions[1].name = kLegacyPartitionNameRoot
              /\ fv.install_plan_.partitions[2].name = kLegacyPartitionNameKernel
        /\ (LegacyCase /\ fv.completions = <<kSuccess>>) =>
              /\ \A i \in 1..2 :
                    /\ fv.install_plan_.partitions[i].source_size
                          \in { k * BlockBytes : k \in 0..fv.devices[i] }
                    /\ fv.install_plan_.partitions[i].source_hash # <<>>
                    /\ fv.install_plan_.partitions[i].source_hash
                          = DeviceHash(i, fv.install_plan_.partitions[i].source_size)
              /\ fv.has_output_pipe =>
                    (fv.output_set /\ fv.output_object = fv.install_plan_)
        /\ (LegacyCase /\ fv.failure = "resolve") =>
              /\ fv.completions # <<>>
              /\ fv.completions[1] # kSuccess
              /\ ~fv.output_set
        /\ (fv.has_input /\ fv.input_object.partitions = <<>> /\ ~LegacyCase) =>
              /\ fv.install_plan_.partitions = <<>>
              /\ fv.opens = <<>>
              /\ fv.completions = <<kSuccess>>

\* The legacy partitions were synthesized with the sizes of their devices,
\* hashed, and forwarded.
C18_Witness ==
    /\ LegacyCase
    /\ fv.completions = <<kSuccess>>
    /\ fv.output_set
    /\ fv.output_object.partitions[1].name = kLegacyPartitionNameRoot
    /\ fv.output_object.partitions[1].source_size = BlockBytes
    /\ fv.output_object.partitions[2].name = kLegacyPartitionNameKernel
    /\ fv.output_object.partitions[2].source_size = BlockBytes
    /\ fv.output_object.partitions[2].source_hash # <<>>

\* C19: a terminate_processing call that directly follows another one leaves
\* the action as the first call left it and has no further effect on its
\* collaborators (applier, share file, delegate, fetcher, processor): nothing
\* but the count of the calls changes.
C19_TerminateIdempotent ==
    [][ /\ (DLStep("TerminateProcessing") /\ dl.op = "TerminateProcessing") =>
              dl' = [dl EXCEPT !.terminates = dl'.terminates]
        /\ ( /\ fv' # fv
             /\ fv'.op = "TerminateProcessing"
             /\ fv.op = "TerminateProcessing" ) =>
              fv' = [fv EXCEPT !.terminates = fv'.terminates] ]_vars

\* C20: while a partition is being hashed (a read is outstanding), the read
\* asks for min(kReadFileBufferSize, remaining_size_) bytes, the bytes fed to
\* the hasher plus remaining_size_ are the declared size of the partition for
\* the mode, and the hasher has been fed the first bytes of the device and
\* nothing else; remaining_size_ is never negative; and a partition is
\* finished with exactly its declared size hashed, so that the hash recorded
\* is the hash over the first declared-size bytes of the device.
C20_ReadSizes ==
    /\ fv.remaining_size_ >= 0
    /\ fv.pending_read > 0 =>
          /\ fv.pending_read = Min(kReadFileBufferSize, fv.remaining_size_)
          /\ fv.hashed + fv.remaining_size_ = ModeSize(fv.partition_index_ + 1)
          /\ fv.hashed = fv.stream_pos
          /\ fv.hasher_.ctx =
                HashUpdate(0, DeviceData(fv.partition_index_ + 1, 0,
                                         fv.hashed \div BlockBytes))
    /\ \A k \in 1..Len(fv.finished) :
          /\ fv.finished[k] = ModeSize(k)
          /\ fv.verifier_mode_ = kComputeSourceHash =>
                fv.install_plan_.partitions[k].source_hash
                   = DeviceHash(k, ModeSize(k))
          /\ fv.verifier_mode_ = kVerifyTargetHash =>
                fv.install_plan_.partitions[k].target_hash
                   = DeviceHash(k, ModeSize(k))

\* A partition of three blocks after its first read: a full buffer was hashed
\* and the read outstanding asks for the block that remains.
C20_Witness ==
    /\ fv.hashed = kReadFileBufferSize
    /\ fv.remaining_size_ = BlockBytes
    /\ fv.pending_read = BlockBytes

\* C21: in every run of a DownloadAction the applier is closed at most once;
\* it has been closed when the action delivers a completion; and once it is
\* closed no chunk is handed to it, whatever received_bytes calls arrive after
\* an applier error or a terminate_processing.
C21_ApplierClosedOnce ==
    /\ [](dl.applier_closes <= 1)
    /\ [](dl.completions # <<>> => dl.applier_closes = 1)
    /\ [](dl.applier_closes = 1 => dl.writer_ = "nullptr")
    /\ [][ /\ dl.applier_closes > 0 => dl'.applier_writes = dl.applier_writes
           /\ dl'.completions # dl.completions => dl'.applier_closes = 1 ]_vars

\* The applier failed on the first chunk and was closed; a second chunk
\* arrived and was not handed to it; transfer_terminated completed the action.
C21_Witness ==
    /\ dl.received = <<1, 2>>
    /\ dl.applier_writes = <<1>>
    /\ dl.applier_closes = 1
    /\ dl.applier_error \in WriteErrors
    /\ dl.completions = <<dl.applier_error>>

\* C22: FileMakeVisible is requested only while P2P sharing is active: in the
\* call that issues it the action holds a non-empty p2p_file_id_, which is the
\* id passed, and has the share file open; once sharing is disabled (or when
\* it never was enabled) no request is issued.
C22_MakeVisibleOnlyWhileSharing ==
    [][dl'.make_visible # dl.make_visible =>
          /\ dl'.p2p_file_id_ # ""
          /\ dl'.p2p_sharing_fd_ # -1
          /\ dl'.make_visible = Append(dl.make_visible, dl'.p2p_file_id_)]_vars

\* The last value the delegate got through SetDownloadStatus is `inactive'.
StatusInactive ==
    dl.status # <<>> /\ ~dl.status[Len(dl.status)]

\* C23: with a delegate set, the status reported at PerformAction is active
\* and no later report is; whenever the action has delivered a completion the
\* last status reported is inactive; and once the status was reported
\* inactive no progress is reported to the delegate any more.
C23_DelegateStatus ==
    /\ []((dl.delegate_ /\ dl.pc = "performed") =>
            /\ dl.status # <<>>
            /\ \A k \in 1..Len(dl.status) : dl.status[k] <=> (k = 1))
    /\ []((dl.delegate_ /\ dl.completions # <<>>) => StatusInactive)
    /\ [][(dl.delegate_ /\ StatusInactive) => dl'.progress = dl.progress]_vars

====
